---------------------------- MODULE Spec2Model ----------------------------
(***************************************************************************)
(* A model of cupy/cuda/compiler.py: the content-addressed kernel cache    *)
(* (compile_with_cache), the two compile backends (compile_using_nvrtc,    *)
(* compile_using_nvcc), the scoped TemporaryDirectory and the lazily       *)
(* initialised process globals.                                            *)
(*                                                                         *)
(* Text is a sequence of one-character strings.  Only ASCII text occurs,   *)
(* so str.encode('utf-8') / bytes.decode('utf-8') map every character to   *)
(* the byte with the same code; a byte is written as the character with    *)
(* that code.  Python's None is the value None below, which is no text.    *)
(***************************************************************************)
EXTENDS Integers, Sequences, FiniteSets, TLC

VARIABLES
    host,     \* what the process runs on: toolchain version, device, environment variables
    nvrtc_version,                  \* _nvrtc_version (line 16)
    nvrtc_max_compute_capability,   \* _nvrtc_max_compute_capability (line 17)
    empty_file_preprocess_cache,    \* _empty_file_preprocess_cache (line 201)
    dir_exists,   \* os.path.isdir(cache_dir)
    files,        \* the files of cache_dir: name -> bytes
    tmpdirs,      \* the directories made by tempfile.mkdtemp: id -> file names
    tmp_made,     \* how many directories mkdtemp has made
    pc,           \* each caller's position in compile_with_cache
    fr,           \* each caller's frame: arguments, locals, and what the call did
    calls,        \* how many calls have been started
    restarts,     \* how many times the process was restarted
    persisted,    \* history: name -> the payload last renamed onto it
    corrupted,    \* history: how many times a cache entry was damaged from outside
    direct,       \* the last direct call of a compile backend and what it did
    kin,    \* key construction: the argument records the key is built from
    kout,   \* key construction: the two key strings built from kin, then their names
    prog,   \* one _NVRTCProgram object and the compiler handle behind it
    archio, \* _get_arch called on its own: the values it returned
    dumpio  \* CompileException.dump called on its own: source in, lines out

mainvars == <<host, nvrtc_version, nvrtc_max_compute_capability,
              empty_file_preprocess_cache, dir_exists, files, tmpdirs,
              tmp_made, pc, fr, calls, restarts, persisted, corrupted,
              direct>>
keyvars == <<kin, kout>>
libvars == <<prog, archio, dumpio>>
vars == <<mainvars, keyvars, libvars>>

None == <<"NoneType">>

(***************************************************************************)
(* Text helpers.                                                           *)
(***************************************************************************)
RECURSIVE Join(_, _)
\* sep.join(parts)
Join(parts, sep) ==
    IF Len(parts) = 0 THEN <<>>
    ELSE IF Len(parts) = 1 THEN parts[1]
    ELSE parts[1] \o sep \o Join(Tail(parts), sep)

Digits == <<"0", "1", "2", "3", "4", "5", "6", "7", "8", "9">>

RECURSIVE IntStr(_)
\* str(n) / repr(n) of a natural number
IntStr(n) == IF n < 10 THEN <<Digits[n + 1]>>
             ELSE IntStr(n \div 10) \o <<Digits[(n % 10) + 1]>>

\* repr(s) of a str without quotes, backslashes or control characters
ReprStr(s) == <<"'">> \o s \o <<"'">>

\* repr(t) of a tuple whose elements have the reprs in `reprs`
ReprTuple(reprs) ==
    IF Len(reprs) = 1 THEN <<"(">> \o reprs[1] \o <<",", ")">>
    ELSE <<"(">> \o Join(reprs, <<",", " ">>) \o <<")">>

\* '%s' % x for x a str or None
FormatS(x) == IF x = None THEN <<"N", "o", "n", "e">> ELSE x

(***************************************************************************)
(* Literals of the source.                                                 *)
(***************************************************************************)
FTZ == <<"-", "f", "t", "z", "=", "t", "r", "u", "e">>
DEVICE_DEBUG == <<"-", "-", "d", "e", "v", "i", "c", "e", "-", "d", "e", "b", "u", "g">>
LINE_INFO == <<"-", "-", "g", "e", "n", "e", "r", "a", "t", "e", "-", "l", "i", "n", "e", "-", "i", "n", "f", "o">>
NVRTC == <<"n", "v", "r", "t", "c">>
NVCC == <<"n", "v", "c", "c">>
SUFFIX == <<"_", "2", ".", "c", "u", "b", "i", "n">>
CU == <<".", "c", "u">>
PREPROCESS_CU == <<"p", "r", "e", "p", "r", "o", "c", "e", "s", "s", ".", "c", "u">>
CUBIN == <<"c", "u", "b", "i", "n">>
PTX == <<"p", "t", "x">>

(***************************************************************************)
(* hashlib.md5(b).hexdigest(): 32 lowercase hex digits that depend on      *)
(* every byte of b.  MD5 itself is replaced by a 15-bit polynomial hash    *)
(* of the bytes and their number (multiplier 31, an odd number, so         *)
(* changing one byte always changes the value); the rendering as           *)
(* DIGEST_WIDTH hex digits is the library's.                               *)
(***************************************************************************)
DIGEST_WIDTH == 32

ALPHA == <<"0", "1", "2", "3", "4", "5", "6", "7", "8", "9", "a", "b", "c",
           "d", "e", "f", "g", "h", "i", "j", "k", "l", "m", "n", "o", "p",
           "q", "r", "s", "t", "u", "v", "w", "x", "y", "z", " ", "'", "(",
           ")", ",", "-", "=", "_", ".", ":", "E", "N", "X", "#">>

Bytes == {ALPHA[i] : i \in 1..Len(ALPHA)}

\* the code of a byte
Ord == [c \in Bytes |-> CHOOSE i \in 1..Len(ALPHA) : ALPHA[i] = c]

HashMod == 2^15

RECURSIVE Pow31(_)
\* 31^k modulo HashMod
Pow31(k) ==
    IF k = 0 THEN 1
    ELSE LET h == Pow31(k \div 2)
         IN  IF k % 2 = 0 THEN (h * h) % HashMod
             ELSE (((h * h) % HashMod) * 31) % HashMod

RECURSIVE PolyHash(_, _, _)
\* the sum of Ord[b[i]] * 31^(hi - i) for i in lo..hi, modulo HashMod
PolyHash(b, lo, hi) ==
    IF lo > hi THEN 0
    ELSE IF lo = hi THEN Ord[b[lo]]
    ELSE LET mid == (lo + hi) \div 2
         IN  (PolyHash(b, lo, mid) * Pow31(hi - mid)
                + PolyHash(b, mid + 1, hi)) % HashMod

Md5Value(b) == (7 * Pow31(Len(b)) + PolyHash(b, 1, Len(b))) % HashMod

\* n as `width` lowercase hex digits, for n below 16^8
Hex(n, width) ==
    [i \in 1..width |->
        IF width - i > 7 THEN "0"
        ELSE ALPHA[((n \div (16^(width - i))) % 16) + 1]]

md5_hexdigest(b) == Hex(Md5Value(b), DIGEST_WIDTH)

(***************************************************************************)
(* The cache key (compile_with_cache, lines 218-228).                      *)
(***************************************************************************)
\* env = (arch, options, _get_nvrtc_version(), backend)
Env(arch, options, version, backend) == <<arch, options, version, backend>>

\* '%s' % (env,): the repr of the tuple
EnvStr(env) ==
    ReprTuple(<<ReprStr(env[1]),
                ReprTuple([i \in 1..Len(env[2]) |-> ReprStr(env[2][i])]),
                ReprTuple(<<IntStr(env[3][1]), IntStr(env[3][2])>>),
                ReprStr(env[4])>>)

\* key_src = '%s %s %s %s' % (env, base, source, extra_source)
key_src(env, base, source, extra_source) ==
    EnvStr(env) \o <<" ">> \o base \o <<" ">> \o source \o <<" ">>
        \o FormatS(extra_source)

\* name = '%s_2.cubin' % hashlib.md5(key_src.encode('utf-8')).hexdigest()
cache_name(ks) == md5_hexdigest(ks) \o SUFFIX

(***************************************************************************)
(* The compilers, linker and loader are collaborators outside the file.    *)
(* Their output is modelled as a function of what they are given.          *)
(***************************************************************************)
\* the assembly text the toolchain `version` emits for `source`
PtxText(source, arch, version) ==
    PTX \o IntStr(version[1]) \o <<"_">> \o arch \o <<":">> \o source

\* function.LinkState: add_ptr_data(ptx), complete()
Link(ptx) == <<"E">> \o SubSeq(ptx, Len(PTX) + 1, Len(ptx))

\* options += ('-ftz=true',) and the optional debug flags (lines 213-216)
ForcedOptions(options, debug) ==
    IF debug THEN options \o <<FTZ>> \o <<DEVICE_DEBUG, LINE_INFO>>
    ELSE options \o <<FTZ>>

(***************************************************************************)
(* Architecture resolution (lines 44-66).                                  *)
(***************************************************************************)
RECURSIVE StrLess(_, _)
\* a < b for two str: the order of the character codes, position by position
StrLess(a, b) ==
    IF Len(b) = 0 THEN FALSE
    ELSE IF Len(a) = 0 THEN TRUE
    ELSE IF Ord[Head(a)] < Ord[Head(b)] THEN TRUE
    ELSE IF Ord[Head(a)] > Ord[Head(b)] THEN FALSE
    ELSE StrLess(Tail(a), Tail(b))

\* min(a, b)
StrMin(a, b) == IF StrLess(b, a) THEN b ELSE a

\* _get_nvrtc_version(): the value of the global after the call
get_nvrtc_version(cached) == IF cached = None THEN host.version ELSE cached

\* _get_arch(): the value of _nvrtc_max_compute_capability after the call
max_compute_capability(cached, version) ==
    IF cached # None THEN cached
    ELSE IF version[1] < 9 THEN <<"5", "0">> ELSE <<"7", "0">>

\* _get_arch(): what it returns
get_arch(cached, version) ==
    StrMin(host.cc, max_compute_capability(cached, version))

(***************************************************************************)
(* TemporaryDirectory (lines 69-80).                                       *)
(***************************************************************************)
\* __enter__: tempfile.mkdtemp()
TD_enter(td, d) == td @@ (d :> {})

\* open(os.path.join(root_dir, name), 'w') and what the tool writes there
TD_write(td, d, name) == [td EXCEPT ![d] = @ \cup {name}]

\* __exit__ that cleans up however the block was left; C10 tells it from
\* TD_exit
TD_exit_always(td, d, exc) == [x \in DOMAIN td \ {d} |-> td[x]]

\* __exit__: nothing when left by an exception, else unlink every file and rmdir
TD_exit(td, d, exc) ==
    IF exc THEN td ELSE [x \in DOMAIN td \ {d} |-> td[x]]

(***************************************************************************)
(* The backends.  Each operator gives what one call does, as a record:     *)
(* td, made: the temporary directories and their count after the call;     *)
(* err: the exception raised ("" for none); result: the value returned;    *)
(* nvcc_runs, nvrtc_runs: external processes launched and in-process       *)
(* compilations run; scopes: the TemporaryDirectory blocks entered and how *)
(* each was left; dumps: CompileException.dump calls.                      *)
(* `o` is what the compiler does with the source, which the file cannot    *)
(* know: "ok", or a failure.                                               *)
(***************************************************************************)
NvrtcOutcomes == {"ok", "nvrtc_error"}
NvccOutcomes == {"ok", "exit_nonzero", "not_found"}

Done(td, made, err, result, nvcc, nvrtc, scopes, dumps) ==
    [td |-> td, made |-> made, err |-> err, result |-> result,
     nvcc_runs |-> nvcc, nvrtc_runs |-> nvrtc, scopes |-> scopes,
     dumps |-> dumps]

\* _get_bool_env_variable('CUPY_DUMP_CUDA_SOURCE_ON_ERROR', False), then e.dump
DumpIf(flag) == IF flag THEN 1 ELSE 0

\* filename.split('.')[0]
FirstPart(filename) ==
    LET dots == {i \in 1..Len(filename) : filename[i] = "."}
    IN  IF dots = {} THEN filename
        ELSE SubSeq(filename, 1, (CHOOSE i \in dots : \A j \in dots : i <= j) - 1)

\* compile_using_nvcc with the output kind looked at only where the result is
\* read back (the else branch of lines 155-160); C9 tells it from
\* compile_using_nvcc
compile_using_nvcc_late(td, made, source, options, arch, filename, code_type, o) ==
    LET d == made
        path == FirstPart(filename)
        cu_path == path \o CU
        result_path == path \o <<".">> \o code_type
        ptx == PtxText(source, arch, host.version)
        td1 == TD_write(TD_enter(td, d), d, cu_path)
    IN  IF o = "ok"
        THEN IF code_type \notin {CUBIN, PTX}
             THEN Done(TD_exit(TD_write(td1, d, result_path), d, TRUE),
                       made + 1, "ValueError", None,
                       1, 0, <<[dir |-> d, exc |-> TRUE]>>, 0)
             ELSE Done(TD_exit(TD_write(td1, d, result_path), d, FALSE),
                       made + 1,
                       "", IF code_type = PTX THEN ptx ELSE Link(ptx),
                       1, 0, <<[dir |-> d, exc |-> FALSE]>>, 0)
        ELSE IF o = "exit_nonzero"
        THEN Done(TD_exit(td1, d, TRUE), made + 1, "CompileException", None,
                  1, 0, <<[dir |-> d, exc |-> TRUE]>>, DumpIf(host.dump))
        ELSE Done(TD_exit(td1, d, TRUE), made + 1, "OSError", None,
                  1, 0, <<[dir |-> d, exc |-> TRUE]>>, 0)

\* compile_using_nvcc (lines 118-160), arch already resolved
compile_using_nvcc(td, made, source, options, arch, filename, code_type, o) ==
    LET d == made
        path == FirstPart(filename)
        cu_path == path \o CU
        result_path == path \o <<".">> \o code_type
        ptx == PtxText(source, arch, host.version)
        td1 == TD_write(TD_enter(td, d), d, cu_path)
    IN  IF code_type \notin {CUBIN, PTX}
        THEN Done(td, made, "ValueError", None, 0, 0, <<>>, 0)
        ELSE IF o = "ok"
        THEN Done(TD_exit(TD_write(td1, d, result_path), d, FALSE), made + 1,
                  "", IF code_type = PTX THEN ptx ELSE Link(ptx),
                  1, 0, <<[dir |-> d, exc |-> FALSE]>>, 0)
        ELSE IF o = "exit_nonzero"
        THEN Done(TD_exit(td1, d, TRUE), made + 1, "CompileException", None,
                  1, 0, <<[dir |-> d, exc |-> TRUE]>>, DumpIf(host.dump))
        ELSE Done(TD_exit(td1, d, TRUE), made + 1, "OSError", None,
                  1, 0, <<[dir |-> d, exc |-> TRUE]>>, 0)

\* compile_using_nvrtc (lines 93-115), arch already resolved
compile_using_nvrtc(td, made, source, options, arch, filename, o) ==
    LET d == made
        td1 == TD_write(TD_enter(td, d), d, filename)
    IN  IF o = "ok"
        THEN Done(TD_exit(td1, d, FALSE), made + 1, "",
                  PtxText(source, arch, host.version),
                  0, 1, <<[dir |-> d, exc |-> FALSE]>>, 0)
        ELSE Done(TD_exit(td1, d, TRUE), made + 1, "CompileException", None,
                  0, 1, <<[dir |-> d, exc |-> TRUE]>>, DumpIf(host.dump))

\* _preprocess that answers a failed compilation with the empty text instead
\* of letting the error out; C8 tells it from preprocess
preprocess_swallow(td, made, source, options, arch, backend, o) ==
    IF backend = NVRTC
    THEN Done(td, made, "",
              IF o = "ok" THEN PtxText(source, arch, host.version) ELSE <<>>,
              0, 1, <<>>, 0)
    ELSE IF backend = NVCC
    THEN LET r == compile_using_nvcc(td, made, source, options, arch,
                                     PREPROCESS_CU, PTX, o)
         IN  IF r.err # "" THEN [r EXCEPT !.err = "", !.result = <<>>]
             ELSE r
    ELSE Done(td, made, "ValueError", None, 0, 0, <<>>, 0)

\* _preprocess (lines 163-191)
preprocess(td, made, source, options, arch, backend, o) ==
    IF backend = NVRTC
    THEN IF o = "ok"
         THEN Done(td, made, "", PtxText(source, arch, host.version),
                   0, 1, <<>>, 0)
         ELSE Done(td, made, "CompileException", None, 0, 1, <<>>,
                   DumpIf(host.dump))
    ELSE IF backend = NVCC
    THEN LET r == compile_using_nvcc(td, made, source, options, arch,
                                     PREPROCESS_CU, PTX, o)
         IN  IF r.err = "CompileException"
             THEN [r EXCEPT !.dumps = @ + DumpIf(host.dump)]
             ELSE r
    ELSE Done(td, made, "ValueError", None, 0, 0, <<>>, 0)

\* what the compiler may do with a source, per backend
Outcomes(backend) ==
    IF backend = NVRTC THEN NvrtcOutcomes
    ELSE IF backend = NVCC THEN NvccOutcomes
    ELSE {"ok"}

(***************************************************************************)
(* The cache entry (lines 241-250 and 263-272).                            *)
(***************************************************************************)
\* hash = data[:32]
EntryHash(data) == SubSeq(data, 1, DIGEST_WIDTH)

\* data[31:], one byte early; C7 tells it from EntryCubin
EntryCubinEarly(data) == SubSeq(data, DIGEST_WIDTH, Len(data))

\* cubin = data[32:]
EntryCubin(data) == SubSeq(data, DIGEST_WIDTH + 1, Len(data))

\* the length test alone, the digest not compared; C1 tells it from EntryValid
EntryValidLengthOnly(data) == Len(data) >= DIGEST_WIDTH

\* len(data) >= 32 and hash == six.b(hashlib.md5(cubin).hexdigest())
EntryValid(data) ==
    /\ Len(data) >= DIGEST_WIDTH
    /\ EntryHash(data) = md5_hexdigest(EntryCubin(data))

\* the entry written in place, under its final name; C2 tells it from TempName
InPlaceName(t, name) == name

\* tempfile.NamedTemporaryFile(dir=cache_dir, delete=False): the name of the
\* file caller t gets; no two callers get the same name
TempName(t, name) == <<"t", "m", "p">> \o IntStr(t)

(***************************************************************************)
(* Bounds and the inputs the model draws from.                             *)
(***************************************************************************)
MaxCalls == 2
MaxCorrupt == 1

\* one caller per call of compile_with_cache: caller t makes the t-th call
Callers == 1..MaxCalls

\* toolchain version, device capability and environment variables of the process
Hosts ==
    {[version |-> <<9, 0>>, cc |-> <<"6", "1">>, debug |-> FALSE,
      save |-> FALSE, dump |-> FALSE],
     [version |-> <<8, 0>>, cc |-> <<"6", "1">>, debug |-> TRUE,
      save |-> TRUE, dump |-> TRUE]}

\* arguments of compile_with_cache
CallArgs ==
    {[source |-> <<"a">>, options |-> <<>>, arch |-> None,
      extra_source |-> None, backend |-> NVRTC],
     [source |-> <<"a">>, options |-> <<>>, arch |-> None,
      extra_source |-> None, backend |-> NVCC],
     [source |-> <<"b">>, options |-> <<>>, arch |-> <<"9", "0">>,
      extra_source |-> <<"c">>, backend |-> NVRTC],
     [source |-> <<"a">>, options |-> <<>>, arch |-> None,
      extra_source |-> None, backend |-> <<"x">>]}

\* the arguments of callers that race for the same keys
RaceArgs == {a \in CallArgs : a.arch = None /\ a.backend \in {NVRTC, NVCC}}

(***************************************************************************)
(* compile_with_cache (lines 204-280), one caller's call step by step.     *)
(***************************************************************************)
Ended == {"idle", "returned", "raised"}

NoArgs == [source |-> <<>>, options |-> <<>>, arch |-> None,
           extra_source |-> None, backend |-> <<>>]

NoFrame ==
    [args |-> NoArgs, source |-> <<>>, extra_source |-> None, backend |-> <<>>,
     options |-> <<>>, arch |-> <<>>, env |-> <<>>, base |-> None,
     base_cached |-> FALSE, name |-> None, found |-> FALSE, data |-> None,
     hit |-> FALSE,
     cubin |-> None, loaded |-> None, err |-> "", failed |-> "",
     saved |-> "", sets_ceiling |-> FALSE, overlap |-> {},
     nvcc_runs |-> 0, nvrtc_runs |-> 0, outcomes |-> <<>>,
     scopes |-> <<>>, dumps |-> 0,
     fresh |-> FALSE, epoch |-> 0]

\* the frame after a backend call that did r, the compiler or linker having
\* done o; outcomes lists what each compiler or linker run of the call did
Ran(f, r, o) ==
    [f EXCEPT !.nvcc_runs = @ + r.nvcc_runs, !.nvrtc_runs = @ + r.nvrtc_runs,
              !.scopes = @ \o r.scopes, !.dumps = @ + r.dumps,
              !.outcomes = IF r.nvcc_runs + r.nvrtc_runs > 0
                           THEN @ \o <<o>> ELSE @]

\* the frame of a call that ends by raising err at `stage`; the bytes read
\* from the cache directory are a local of the call and go with it
Raised(f, err, stage) ==
    [f EXCEPT !.err = err, !.failed = stage, !.data = None]

\* mod.load(cubin); return mod
Loaded(f, cubin) == [f EXCEPT !.loaded = cubin]

\* lines 279-280: mod.load(cubin); return mod, after a compilation
Compiled(f) == [f EXCEPT !.loaded = f.cubin, !.data = None]

\* d[k] = v
DictSet(d, k, v) == [x \in DOMAIN d \cup {k} |-> IF x = k THEN v ELSE d[x]]

\* the move left out: the entry stays under its temporary name; C4 tells it
\* from Rename
RenameLeftOut(fs, src, dst) == fs

\* shutil.move(src, dst) inside one directory: os.rename
Rename(fs, src, dst) ==
    [n \in (DOMAIN fs \ {src}) \cup {dst} |-> IF n = dst THEN fs[src] ELSE fs[n]]

\* the process has done nothing yet and the cache directory holds nothing
Fresh ==
    /\ nvrtc_version = None
    /\ nvrtc_max_compute_capability = None
    /\ DOMAIN empty_file_preprocess_cache = {}
    /\ DOMAIN files = {}
    /\ calls = 0

\* a lookup that never finds what was stored; C14 tells it from cache_get
cache_get_miss(d, k) == None

\* _empty_file_preprocess_cache.get(env, None)
cache_get(d, k) == IF k \in DOMAIN d THEN d[k] ELSE None

\* lines 55-66 and 213-219 for the call with frame f: the ceiling is
\* determined by a call that found it unset, the architecture resolved, the
\* options forced, env built and the baseline looked up.  Gives the frame,
\* the position and the two globals after these lines.
resolve_env(f) ==
    LET a == f.args
        version == get_nvrtc_version(nvrtc_version)
        ceiling == IF f.sets_ceiling
                   THEN max_compute_capability(None, version)
                   ELSE nvrtc_max_compute_capability
        arch == IF a.arch = None
                THEN get_arch(ceiling, version)
                ELSE a.arch
        options == ForcedOptions(a.options, host.debug)
        env == Env(arch, options, version, a.backend)
        base == cache_get(empty_file_preprocess_cache, env)
        cached == base # None
    IN  [version |-> version,
         ceiling |-> ceiling,
         pc |-> IF cached THEN "isdir" ELSE "preprocess",
         fr |-> [f EXCEPT
                   !.options = options, !.arch = arch, !.env = env,
                   !.base = base, !.base_cached = cached,
                   !.name = IF cached
                            THEN cache_name(key_src(env, base, a.source,
                                                    a.extra_source))
                            ELSE None]]

\* the frame of a call that is entered with arguments a: whether it finds
\* the ceiling unset (line 54), and the calls it runs together with
EnterFrame(a) ==
    [NoFrame EXCEPT
       !.args = a, !.source = a.source,
       !.extra_source = a.extra_source, !.backend = a.backend,
       !.sets_ceiling = (a.arch = None
                         /\ nvrtc_max_compute_capability = None),
       !.overlap = {v \in Callers : pc[v] \notin Ended},
       !.fresh = Fresh, !.epoch = restarts]

\* the frames once caller t has entered with frame f: the calls that are
\* running have run together with it
Entered(t, f) ==
    [u \in Callers |->
       IF u = t THEN f
       ELSE IF pc[u] \notin Ended
            THEN [fr[u] EXCEPT !.overlap = @ \cup {t}]
       ELSE fr[u]]

\* lines 204-219 in one step: the call is entered, the architecture
\* resolved, the options forced, env built and the baseline looked up
Call(t, a) ==
    LET r == resolve_env(EnterFrame(a))
    IN  /\ pc[t] = "idle"
        /\ calls = t - 1
        /\ calls' = calls + 1
        /\ fr' = Entered(t, r.fr)
        /\ pc' = [pc EXCEPT ![t] = r.pc]
        /\ nvrtc_version' = r.version
        /\ nvrtc_max_compute_capability' = r.ceiling
        /\ UNCHANGED <<keyvars, libvars, restarts, host,
                       empty_file_preprocess_cache, dir_exists, files,
                       tmpdirs, tmp_made, persisted, corrupted, direct>>

\* lines 204-211 and 54 when the threads are switched inside _get_arch: the
\* call has found the ceiling unset and has not stored it yet
Enter(t, a) ==
    /\ pc[t] = "idle"
    /\ calls = t - 1
    /\ a.arch = None
    /\ nvrtc_max_compute_capability = None
    /\ calls' = calls + 1
    /\ fr' = Entered(t, EnterFrame(a))
    /\ pc' = [pc EXCEPT ![t] = "resolve"]
    /\ UNCHANGED <<keyvars, libvars, restarts, host, nvrtc_version,
                   nvrtc_max_compute_capability,
                   empty_file_preprocess_cache, dir_exists, files,
                   tmpdirs, tmp_made, persisted, corrupted, direct>>

\* lines 55-66 and 213-219 in a call that has found the ceiling unset
ResolveEnv(t) ==
    LET r == resolve_env(fr[t])
    IN  /\ pc[t] = "resolve"
        /\ nvrtc_version' = r.version
        /\ nvrtc_max_compute_capability' = r.ceiling
        /\ fr' = [fr EXCEPT ![t] = r.fr]
        /\ pc' = [pc EXCEPT ![t] = r.pc]
        /\ UNCHANGED <<keyvars, libvars, restarts, host,
                       empty_file_preprocess_cache, dir_exists, files,
                       tmpdirs, tmp_made, calls, persisted, corrupted, direct>>

\* a call made when no other call is running
SeqCall(a) ==
    /\ \A u \in Callers : pc[u] \in Ended
    /\ \E t \in Callers : Call(t, a)

\* lines 220-228: the baseline is compiled and stored, the key is built
Preprocess(t, o) ==
    LET f == fr[t]
        r == preprocess(tmpdirs, tmp_made, <<>>, f.options, f.arch,
                        f.backend, o)
        g == Ran(f, r, o)
    IN  /\ pc[t] = "preprocess"
        /\ o \in Outcomes(f.backend)
        /\ tmpdirs' = r.td
        /\ tmp_made' = r.made
        /\ IF r.err = ""
           THEN /\ empty_file_preprocess_cache' =
                      DictSet(empty_file_preprocess_cache, f.env, r.result)
                /\ fr' = [fr EXCEPT ![t] =
                      [g EXCEPT !.base = r.result,
                                !.name = cache_name(key_src(f.env, r.result,
                                            f.source, f.extra_source))]]
                /\ pc' = [pc EXCEPT ![t] = "isdir"]
           ELSE /\ fr' = [fr EXCEPT ![t] = Raised(g, r.err, "preprocess")]
                /\ pc' = [pc EXCEPT ![t] = "raised"]
                /\ UNCHANGED empty_file_preprocess_cache
        /\ UNCHANGED <<keyvars, libvars, restarts, host,
                       nvrtc_version, nvrtc_max_compute_capability,
                       dir_exists, files, calls, persisted, corrupted, direct>>

\* line 230: os.path.isdir(cache_dir)
IsDir(t) ==
    /\ pc[t] = "isdir"
    /\ pc' = [pc EXCEPT ![t] = IF dir_exists THEN "lookup" ELSE "makedirs"]
    /\ UNCHANGED <<keyvars, libvars, restarts, host,
                   nvrtc_version, nvrtc_max_compute_capability,
                   empty_file_preprocess_cache, dir_exists, files, tmpdirs,
                   tmp_made, fr, calls, persisted, corrupted, direct>>

\* lines 231-233: os.makedirs fails when the directory exists by now, or when
\* the file system refuses (o = "denied")
MakeDirs(t, o) ==
    /\ pc[t] = "makedirs"
    /\ o \in {"ok", "denied"}
    /\ IF dir_exists \/ o = "denied"
       THEN /\ pc' = [pc EXCEPT ![t] = "recheck"]
            /\ UNCHANGED dir_exists
       ELSE /\ dir_exists' = TRUE
            /\ pc' = [pc EXCEPT ![t] = "lookup"]
    /\ UNCHANGED <<keyvars, libvars, restarts, host,
                   nvrtc_version, nvrtc_max_compute_capability,
                   empty_file_preprocess_cache, files, tmpdirs, tmp_made, fr,
                   calls, persisted, corrupted, direct>>

\* lines 233-235 without the second os.path.isdir: every OSError of
\* os.makedirs is let out; C16 tells it from Recheck
RecheckAlwaysRaises(t) ==
    /\ pc[t] = "recheck"
    /\ pc' = [pc EXCEPT ![t] = "raised"]
    /\ fr' = [fr EXCEPT ![t] = Raised(@, "OSError", "makedirs")]
    /\ UNCHANGED <<keyvars, libvars, restarts, host,
                   nvrtc_version, nvrtc_max_compute_capability,
                   empty_file_preprocess_cache, dir_exists, files, tmpdirs,
                   tmp_made, calls, persisted, corrupted, direct>>

\* lines 233-235: after the OSError, raise unless the directory exists
Recheck(t) ==
    /\ pc[t] = "recheck"
    /\ IF dir_exists
       THEN /\ pc' = [pc EXCEPT ![t] = "lookup"]
            /\ UNCHANGED fr
       ELSE /\ pc' = [pc EXCEPT ![t] = "raised"]
            /\ fr' = [fr EXCEPT ![t] = Raised(@, "OSError", "makedirs")]
    /\ UNCHANGED <<keyvars, libvars, restarts, host,
                   nvrtc_version, nvrtc_max_compute_capability,
                   empty_file_preprocess_cache, dir_exists, files, tmpdirs,
                   tmp_made, calls, persisted, corrupted, direct>>

\* the lookup without the `return mod` of line 250: a valid entry is loaded
\* and the call goes on to compile; C3 tells it from Lookup
LookupNoReturn(t) ==
    LET f == fr[t]
        found == f.name \in DOMAIN files
        data == IF found THEN files[f.name] ELSE None
    IN  /\ pc[t] = "lookup"
        /\ IF found /\ EntryValid(data)
           THEN fr' = [fr EXCEPT ![t] =
                      Loaded([f EXCEPT !.found = TRUE, !.data = data,
                                       !.hit = TRUE],
                             EntryCubin(data))]
           ELSE fr' = [fr EXCEPT ![t] =
                      [f EXCEPT !.found = found, !.data = data]]
        /\ pc' = [pc EXCEPT ![t] = "compile"]
        /\ UNCHANGED <<keyvars, libvars, restarts, host,
                       nvrtc_version, nvrtc_max_compute_capability,
                       empty_file_preprocess_cache, dir_exists, files,
                       tmpdirs, tmp_made, calls, persisted, corrupted, direct>>

\* lines 241-250: the entry is read and checked; a valid one is loaded.
\* Nothing removes a file from the directory, so os.path.exists and the
\* read that follows it see the same file or a later one.
Lookup(t) ==
    LET f == fr[t]
        found == f.name \in DOMAIN files
        data == IF found THEN files[f.name] ELSE None
    IN  /\ pc[t] = "lookup"
        /\ IF found /\ EntryValid(data)
           THEN /\ fr' = [fr EXCEPT ![t] =
                      Loaded([f EXCEPT !.found = TRUE, !.data = data,
                                       !.hit = TRUE],
                             EntryCubin(data))]
                /\ pc' = [pc EXCEPT ![t] = "returned"]
           ELSE /\ fr' = [fr EXCEPT ![t] =
                      [f EXCEPT !.found = found, !.data = data]]
                /\ pc' = [pc EXCEPT ![t] = "compile"]
        /\ UNCHANGED <<keyvars, libvars, restarts, host,
                       nvrtc_version, nvrtc_max_compute_capability,
                       empty_file_preprocess_cache, dir_exists, files,
                       tmpdirs, tmp_made, calls, persisted, corrupted, direct>>

\* lines 252-261: the backend compiles source to a binary
compile_backend(td, made, f, o) ==
    IF f.backend = NVRTC
    THEN LET r == compile_using_nvrtc(td, made, f.source, f.options, f.arch,
                                      f.name \o CU,
                                      IF o = "link_error" THEN "ok" ELSE o)
         IN  IF r.err # "" THEN r
             ELSE IF o = "link_error"
             THEN [r EXCEPT !.err = "LinkError", !.result = None]
             ELSE [r EXCEPT !.result = Link(r.result)]
    ELSE IF f.backend = NVCC
    THEN compile_using_nvcc(td, made, f.source, f.options, f.arch,
                            f.name \o CU, CUBIN, o)
    ELSE Done(td, made, "ValueError", None, 0, 0, <<>>, 0)

\* what the compiler and the linker may do on the real compile
CompileOutcomes(backend) ==
    IF backend = NVRTC THEN NvrtcOutcomes \cup {"link_error"}
    ELSE Outcomes(backend)

\* lines 252-268 with the temporary file opened before the backend is
\* called: it is there when the backend fails; C20 tells it from Compile
CompileOpensFirst(t, o) ==
    LET f == fr[t]
        r == compile_backend(tmpdirs, tmp_made, f, o)
        g == Ran(f, r, o)
    IN  /\ pc[t] = "compile"
        /\ o \in CompileOutcomes(f.backend)
        /\ tmpdirs' = r.td
        /\ tmp_made' = r.made
        /\ files' = DictSet(files, TempName(t, f.name), <<>>)
        /\ IF r.err = ""
           THEN /\ fr' = [fr EXCEPT ![t] = [g EXCEPT !.cubin = r.result]]
                /\ pc' = [pc EXCEPT ![t] = "write_hash"]
           ELSE /\ fr' = [fr EXCEPT ![t] =
                      Raised(g, r.err,
                             IF r.err = "LinkError" THEN "link" ELSE "compile")]
                /\ pc' = [pc EXCEPT ![t] = "raised"]
        /\ UNCHANGED <<keyvars, libvars, restarts, host,
                       nvrtc_version, nvrtc_max_compute_capability,
                       empty_file_preprocess_cache, dir_exists, calls,
                       persisted, corrupted, direct>>

\* lines 252-268: compile, then open the temporary file in cache_dir
Compile(t, o) ==
    LET f == fr[t]
        r == compile_backend(tmpdirs, tmp_made, f, o)
        g == Ran(f, r, o)
    IN  /\ pc[t] = "compile"
        /\ o \in CompileOutcomes(f.backend)
        /\ tmpdirs' = r.td
        /\ tmp_made' = r.made
        /\ IF r.err = ""
           THEN /\ fr' = [fr EXCEPT ![t] = [g EXCEPT !.cubin = r.result]]
                /\ files' = DictSet(files, TempName(t, f.name), <<>>)
                /\ pc' = [pc EXCEPT ![t] = "write_hash"]
           ELSE /\ fr' = [fr EXCEPT ![t] =
                      Raised(g, r.err,
                             IF r.err = "LinkError" THEN "link" ELSE "compile")]
                /\ pc' = [pc EXCEPT ![t] = "raised"]
                /\ UNCHANGED files
        /\ UNCHANGED <<keyvars, libvars, restarts, host,
                       nvrtc_version, nvrtc_max_compute_capability,
                       empty_file_preprocess_cache, dir_exists, calls,
                       persisted, corrupted, direct>>

\* line 269: tf.write(cubin_hash)
WriteHash(t) ==
    LET tf == TempName(t, fr[t].name)
    IN  /\ pc[t] = "write_hash"
        /\ files' = [files EXCEPT ![tf] = @ \o md5_hexdigest(fr[t].cubin)]
        /\ pc' = [pc EXCEPT ![t] = "write_cubin"]
        /\ UNCHANGED <<keyvars, libvars, restarts, host,
                       nvrtc_version, nvrtc_max_compute_capability,
                       empty_file_preprocess_cache, dir_exists, tmpdirs,
                       tmp_made, fr, calls, persisted, corrupted, direct>>

\* lines 270-271: tf.write(cubin), and the file is closed
WriteCubin(t) ==
    LET tf == TempName(t, fr[t].name)
    IN  /\ pc[t] = "write_cubin"
        /\ files' = [files EXCEPT ![tf] = @ \o fr[t].cubin]
        /\ pc' = [pc EXCEPT ![t] = "move"]
        /\ UNCHANGED <<keyvars, libvars, restarts, host,
                       nvrtc_version, nvrtc_max_compute_capability,
                       empty_file_preprocess_cache, dir_exists, tmpdirs,
                       tmp_made, fr, calls, persisted, corrupted, direct>>

\* lines 272-280 without CUPY_CACHE_SAVE_CUDA_SOURCE: the temporary file is
\* moved onto the final path and the binary is loaded; with it, the source is
\* saved first (SaveSource)
Move(t) ==
    LET f == fr[t]
    IN  /\ pc[t] = "move"
        /\ files' = Rename(files, TempName(t, f.name), f.name)
        /\ persisted' = DictSet(persisted, f.name, f.cubin)
        /\ IF host.save
           THEN /\ pc' = [pc EXCEPT ![t] = "save_source"]
                /\ UNCHANGED fr
           ELSE /\ pc' = [pc EXCEPT ![t] = "returned"]
                /\ fr' = [fr EXCEPT ![t] = Compiled(f)]
        /\ UNCHANGED <<keyvars, libvars, restarts, host,
                       nvrtc_version, nvrtc_max_compute_capability,
                       empty_file_preprocess_cache, dir_exists, tmpdirs,
                       tmp_made, calls, corrupted, direct>>

\* what open(path + '.cu', 'w') and f.write(source) may do: succeed, fail to
\* open, or fail in the write with the file already made
SaveOutcomes == {"ok", "io_error", "write_error"}

\* lines 275-280 with the failure of the write not let out: the binary is
\* loaded and returned all the same; C13 tells it from SaveSource
SaveSourceBestEffort(t, o) ==
    LET f == fr[t]
    IN  /\ pc[t] = "save_source"
        /\ o \in SaveOutcomes
        /\ files' = IF o = "io_error" THEN files
                    ELSE DictSet(files, f.name \o CU,
                                 IF o = "ok" THEN f.source ELSE <<>>)
        /\ fr' = [fr EXCEPT ![t] = Compiled([f EXCEPT !.saved = o])]
        /\ pc' = [pc EXCEPT ![t] = "returned"]
        /\ UNCHANGED <<keyvars, libvars, restarts, host,
                       nvrtc_version, nvrtc_max_compute_capability,
                       empty_file_preprocess_cache, dir_exists, tmpdirs,
                       tmp_made, calls, persisted, corrupted, direct>>

\* lines 275-280: open(path + '.cu', 'w') and f.write(source) succeed or
\* raise; then the binary is loaded
SaveSource(t, o) ==
    LET f == [fr[t] EXCEPT !.saved = o]
    IN  /\ pc[t] = "save_source"
        /\ o \in SaveOutcomes
        /\ IF o = "ok"
           THEN /\ files' = DictSet(files, f.name \o CU, f.source)
                /\ fr' = [fr EXCEPT ![t] = Compiled(f)]
                /\ pc' = [pc EXCEPT ![t] = "returned"]
           ELSE /\ files' = IF o = "write_error"
                            THEN DictSet(files, f.name \o CU, <<>>)
                            ELSE files
                /\ fr' = [fr EXCEPT ![t] = Raised(f, "IOError", "save_source")]
                /\ pc' = [pc EXCEPT ![t] = "raised"]
        /\ UNCHANGED <<keyvars, libvars, restarts, host,
                       nvrtc_version, nvrtc_max_compute_capability,
                       empty_file_preprocess_cache, dir_exists, tmpdirs,
                       tmp_made, calls, persisted, corrupted, direct>>

\* lines 16-17 and 201: a new process imports the module; the cache
\* directory is the one the old process left
Restart ==
    /\ \A t \in Callers : pc[t] \in Ended
    /\ nvrtc_version # None
    /\ nvrtc_version' = None
    /\ nvrtc_max_compute_capability' = None
    /\ empty_file_preprocess_cache' = <<>>
    /\ restarts' = restarts + 1
    /\ UNCHANGED <<keyvars, libvars, host, dir_exists, files, tmpdirs, tmp_made, pc,
                   fr, calls, persisted, corrupted, direct>>

(***************************************************************************)
(* Damage from outside: a cache entry has one byte changed or is cut       *)
(* short.  A read sees a file whole, so damage done while a call runs is   *)
(* seen by a read as damage done before the call, or not at all: damage    *)
(* between calls covers it.                                                *)
(***************************************************************************)
\* the final paths among the files of the cache directory
IsEntryName(n) ==
    /\ Len(n) = DIGEST_WIDTH + Len(SUFFIX)
    /\ SubSeq(n, DIGEST_WIDTH + 1, Len(n)) = SUFFIX

\* another byte
Flip(c) == ALPHA[(Ord[c] % Len(ALPHA)) + 1]

\* the entry with byte i changed, or cut to i bytes
Damage(data, i, cut) ==
    IF cut THEN SubSeq(data, 1, i) ELSE [data EXCEPT ![i] = Flip(@)]

\* the lengths an entry is cut to: none or one byte, one byte less than the
\* digest, the digest alone, all but the last byte
CutLengths(data) ==
    {k \in {0, 1, DIGEST_WIDTH - 1, DIGEST_WIDTH, Len(data) - 1} :
        0 <= k /\ k < Len(data)}

Corrupt ==
    /\ \A t \in Callers : pc[t] \in Ended
    /\ corrupted < MaxCorrupt
    /\ \E n \in {m \in DOMAIN files : IsEntryName(m)} :
          \/ \E i \in 1..Len(files[n]) :
                files' = [files EXCEPT ![n] = Damage(@, i, FALSE)]
          \/ \E k \in CutLengths(files[n]) :
                files' = [files EXCEPT ![n] = Damage(@, k, TRUE)]
    /\ corrupted' = corrupted + 1
    /\ UNCHANGED <<keyvars, libvars, restarts, host,
                   nvrtc_version, nvrtc_max_compute_capability,
                   empty_file_preprocess_cache, dir_exists, tmpdirs, tmp_made,
                   pc, fr, calls, persisted, direct>>

(***************************************************************************)
(* The backends called directly.                                           *)
(***************************************************************************)
KERN_CU == <<"k", "e", "r", "n", ".", "c", "u">>

CodeTypes == {CUBIN, PTX, <<"f", "a", "t", "b", "i", "n">>, <<>>}
DirectArchs == {None, <<"3", "0">>}
DirectSources == {<<"a">>, <<"b">>}

NoDirect ==
    [fn |-> "", code_type |-> <<>>, arch |-> None,
     td_before |-> <<>>, made_before |-> 0,
     r |-> Done(<<>>, 0, "", None, 0, 0, <<>>, 0)]

\* `if not arch: arch = _get_arch()` (lines 94-95 and 120-121)
DirectArch(arch) ==
    IF arch = None
    THEN get_arch(nvrtc_max_compute_capability,
                  get_nvrtc_version(nvrtc_version))
    ELSE arch

ResolveArch(arch) ==
    IF arch = None
    THEN /\ nvrtc_version' = get_nvrtc_version(nvrtc_version)
         /\ nvrtc_max_compute_capability' =
               max_compute_capability(nvrtc_max_compute_capability,
                                      get_nvrtc_version(nvrtc_version))
    ELSE UNCHANGED <<nvrtc_version, nvrtc_max_compute_capability>>

\* compile_using_nvcc(source, (), arch, 'kern.cu', code_type)
DirectNvcc(source, arch, code_type, o) ==
    LET r == compile_using_nvcc(tmpdirs, tmp_made, source, <<>>,
                                DirectArch(arch), KERN_CU, code_type, o)
    IN  /\ calls < MaxCalls
        /\ calls' = calls + 1
        /\ o \in NvccOutcomes
        /\ ResolveArch(arch)
        /\ tmpdirs' = r.td
        /\ tmp_made' = r.made
        /\ direct' = [fn |-> "nvcc", code_type |-> code_type, arch |-> arch,
                      td_before |-> tmpdirs, made_before |-> tmp_made,
                      r |-> r]
        /\ UNCHANGED <<keyvars, libvars, restarts, host,
                       empty_file_preprocess_cache, dir_exists, files,
                       pc, fr, persisted, corrupted>>

\* compile_using_nvrtc(source, (), arch, 'kern.cu')
DirectNvrtc(source, arch, o) ==
    LET r == compile_using_nvrtc(tmpdirs, tmp_made, source, <<>>,
                                 DirectArch(arch), KERN_CU, o)
    IN  /\ calls < MaxCalls
        /\ calls' = calls + 1
        /\ o \in NvrtcOutcomes
        /\ ResolveArch(arch)
        /\ tmpdirs' = r.td
        /\ tmp_made' = r.made
        /\ direct' = [fn |-> "nvrtc", code_type |-> PTX, arch |-> arch,
                      td_before |-> tmpdirs, made_before |-> tmp_made,
                      r |-> r]
        /\ UNCHANGED <<keyvars, libvars, restarts, host,
                       empty_file_preprocess_cache, dir_exists, files,
                       pc, fr, persisted, corrupted>>

(***************************************************************************)
(* The key as a function of its inputs (lines 213-228).                    *)
(***************************************************************************)
KeyInputs ==
    [arch : {<<"5", "0">>, <<"7", "0">>},
     options : {<<<<"-", "x">>>>, <<<<"-", "x">>, <<"-", "y">>>>,
                <<<<"-", "y">>, <<"-", "x">>>>},
     version : {<<8, 0>>, <<9, 0>>},
     backend : {NVRTC, NVCC},
     source : {<<"a">>, <<"a", " ", "b">>},
     extra_source : {None, <<"N", "o", "n", "e">>, <<"c">>, <<"b", " ", "c">>}]

\* key_src for arguments i on a toolchain of version i.version
KeySrcOf(i) ==
    LET options == ForcedOptions(i.options, FALSE)
        env == Env(i.arch, options, i.version, i.backend)
        base == PtxText(<<>>, i.arch, i.version)
    IN  key_src(env, base, i.source, i.extra_source)

ChooseInputs ==
    /\ kin = <<>>
    /\ \E i \in KeyInputs : \E j \in KeyInputs : kin' = <<i, j>>
    /\ UNCHANGED <<mainvars, libvars, kout>>

BuildKey ==
    /\ kin # <<>>
    /\ kout = <<>>
    /\ kout' = <<KeySrcOf(kin[1]), KeySrcOf(kin[2]),
                 cache_name(KeySrcOf(kin[1])), cache_name(KeySrcOf(kin[2]))>>
    /\ UNCHANGED <<mainvars, libvars, kin>>

(***************************************************************************)
(* _NVRTCProgram (lines 315-340): one object, the handle nvrtc gave it,    *)
(* and every call made on that handle.                                     *)
(***************************************************************************)
MaxProgOps == 4

\* src as given to __init__: text, or bytes that __init__ decodes
ProgSources ==
    {[kind |-> "text", chars |-> <<"a">>],
     [kind |-> "bytes", chars |-> <<"b">>]}

ProgNames == {<<>>, KERN_CU}

\* what nvrtc.createProgram returns
HANDLE == <<"h">>

\* reach: "none" before construction, "alive" while the object is referenced,
\* "gone" once the interpreter has finalised it; handle: what nvrtc holds
NoProg ==
    [reach |-> "none", bound |-> FALSE, ptr |-> None, src |-> <<>>,
     name |-> <<>>, handle |-> "none", destroys |-> 0, uses |-> <<>>,
     result |-> None, ops |-> 0]

\* a call of nvrtc on the object's handle, which is in state prog.handle
NvrtcUse(op) == [op |-> op, handle |-> prog.handle]

\* __init__ (lines 317-328): self.ptr = None, src and name decoded, then
\* nvrtc.createProgram, which may raise; the object is bound to a name only
\* when __init__ returns
ProgInit(src, name, o) ==
    /\ prog.reach = "none"
    /\ o \in {"ok", "create_error"}
    /\ prog' = IF o = "ok"
               THEN [prog EXCEPT !.reach = "alive", !.bound = TRUE,
                                 !.src = src.chars, !.name = name,
                                 !.ptr = HANDLE, !.handle = "live"]
               ELSE [prog EXCEPT !.reach = "alive", !.bound = FALSE,
                                 !.src = src.chars, !.name = name,
                                 !.ptr = None]
    /\ UNCHANGED <<mainvars, keyvars, archio, dumpio>>

\* compile (lines 334-340): compileProgram, then getPTX, or getProgramLog and
\* CompileException when NVRTCError is raised
ProgCompile(o) ==
    /\ prog.reach = "alive"
    /\ prog.bound
    /\ prog.ops < MaxProgOps
    /\ o \in NvrtcOutcomes
    /\ prog' = [prog EXCEPT
          !.ops = @ + 1,
          !.uses = @ \o <<NvrtcUse("compileProgram"),
                          NvrtcUse(IF o = "ok" THEN "getPTX"
                                   ELSE "getProgramLog")>>,
          !.result = IF o = "ok" THEN PtxText(prog.src, <<>>, host.version)
                     ELSE <<"CompileException">>]
    /\ UNCHANGED <<mainvars, keyvars, archio, dumpio>>

\* __del__ (lines 330-332): `if self.ptr: nvrtc.destroyProgram(self.ptr)`;
\* self.ptr keeps its value
prog_del(p) ==
    IF p.ptr # None
    THEN [p EXCEPT !.uses = @ \o <<[op |-> "destroyProgram",
                                    handle |-> p.handle]>>,
                   !.destroys = @ + 1,
                   !.handle = "destroyed"]
    ELSE p

\* __del__ invoked: by the code that holds the object (final = FALSE), or by
\* the interpreter when the last reference goes (final = TRUE)
ProgDel(final) ==
    /\ prog.reach = "alive"
    /\ final \/ (prog.bound /\ prog.ops < MaxProgOps)
    /\ prog' = [prog_del(prog) EXCEPT
                   !.reach = IF final THEN "gone" ELSE "alive",
                   !.ops = IF final THEN @ ELSE @ + 1]
    /\ UNCHANGED <<mainvars, keyvars, archio, dumpio>>

(***************************************************************************)
(* CompileException.dump (lines 300-312).  What is written to f is the     *)
(* list of the texts given to f.write.                                     *)
(***************************************************************************)
NL == "\n"

\* what str.rstrip() takes for whitespace, as far as the model's texts go
WHITESPACE == {" ", "\t", "\r", NL}

\* s.split('\n'): the texts between the line feeds of s, in order; a text
\* with k line feeds gives k + 1 of them
Split(s) ==
    LET P == {i \in 1..Len(s) : s[i] = NL}
        before == [i \in 1..Len(s) |-> Cardinality({q \in P : q < i})]
        feed == [j \in 1..Cardinality(P) |->
                   CHOOSE q \in P : before[q] = j - 1]
    IN  [j \in 1..(Cardinality(P) + 1) |->
           SubSeq(s,
                  IF j = 1 THEN 1 ELSE feed[j - 1] + 1,
                  IF j = Cardinality(P) + 1 THEN Len(s) ELSE feed[j] - 1)]

\* line.rstrip()
RStrip(line) ==
    LET keep == {i \in 1..Len(line) : line[i] \notin WHITESPACE}
    IN  IF keep = {} THEN <<>>
        ELSE SubSeq(line, 1, CHOOSE i \in keep : \A j \in keep : j <= i)

RECURSIVE FloorLog10(_)
\* int(math.floor(math.log10(n))) for n >= 1
FloorLog10(n) == IF n < 10 THEN 0 ELSE 1 + FloorLog10(n \div 10)

\* the width of the line numbers with the logarithm rounded up instead of
\* down and one added; C18 tells it from dump_digits
dump_digits_ceil(n) ==
    IF n = 1 THEN 0 ELSE FloorLog10(n - 1) + 1

\* line 302: digits = int(math.floor(math.log10(len(lines)))) + 1
dump_digits(n) == FloorLog10(n) + 1

\* '{:0Wd}'.format(n): n in decimal, zeros put before it up to width W
ZeroPad(n, W) ==
    LET d == IntStr(n)
    IN  IF Len(d) >= W THEN d ELSE [i \in 1..(W - Len(d)) |-> "0"] \o d

\* the texts of the model's exception: str(self), self.name, self.options
DUMP_MSG == <<"e">>
DUMP_HEAD ==
    <<<<"N", "V", "R", "T", "C", " ", "c", "o", "m", "p", "i", "l",
        "a", "t", "i", "o", "n", " ", "e", "r", "r", "o", "r",
        ":", " ">>
        \o DUMP_MSG \o <<NL>>,
      <<"-", "-", "-", "-", "-", NL>>,
      <<"N", "a", "m", "e", ":", " ">>
        \o KERN_CU \o <<NL>>,
      <<"O", "p", "t", "i", "o", "n", "s", ":", " ">>
        \o FTZ \o <<NL>>,
      <<"C", "U", "D", "A", " ", "s", "o", "u", "r", "c", "e", ":", NL>>>>

\* dump(f): what is given to f.write, call by call
dump_writes(source) ==
    LET lines == Split(source)
        digits == dump_digits(Len(lines))
    IN  DUMP_HEAD
        \o [i \in 1..Len(lines) |->
              ZeroPad(i, digits) \o <<" ">> \o RStrip(lines[i]) \o <<NL>>]
        \o << <<"-", "-", "-", "-", "-", NL>> >>

\* sources to dump: up to MaxLines lines, the lines taken in turn from a
\* pattern
MaxLines == 101

Patterns ==
    {<< <<"a">> >>,
     << <<"b", " ">>, <<>> >>,
     << <<"c", "\t">>, <<"d", "d">>, <<" ">> >>}

\* the text of n lines taken in turn from pattern p, joined by line feeds
PatternSource(n, p) ==
    LET m == Len(p)
        block == Join([j \in 1..m |-> p[j] \o <<NL>>], <<>>)
        part == Join([j \in 1..(n % m) |-> p[j] \o <<NL>>], <<>>)
        total == (n \div m) * Len(block) + Len(part) - 1
    IN  [i \in 1..total |-> block[((i - 1) % Len(block)) + 1]]

\* e.dump(f) for an exception that holds `source`; dumpio keeps the source
\* and what was written
Dump(source) ==
    /\ dumpio = <<>>
    /\ dumpio' = [source |-> source, out |-> dump_writes(source)]
    /\ UNCHANGED <<mainvars, keyvars, prog, archio>>

(***************************************************************************)
(* Specifications.                                                         *)
(***************************************************************************)
\* the module as imported (lines 16-17, 201), nothing called yet
Imported ==
    /\ nvrtc_version = None
    /\ nvrtc_max_compute_capability = None
    /\ empty_file_preprocess_cache = <<>>
    /\ dir_exists = FALSE
    /\ files = <<>>
    /\ tmpdirs = <<>>
    /\ tmp_made = 0
    /\ pc = [t \in Callers |-> "idle"]
    /\ fr = [t \in Callers |-> NoFrame]
    /\ calls = 0
    /\ restarts = 0
    /\ persisted = <<>>
    /\ corrupted = 0
    /\ direct = NoDirect
    /\ kin = <<>>
    /\ kout = <<>>
    /\ prog = NoProg
    /\ archio = <<>>
    /\ dumpio = <<>>

Init == host \in Hosts /\ Imported

\* callers of compile_with_cache racing in one process
Next ==
    \/ \E t \in Callers : \E a \in RaceArgs : Call(t, a)
    \/ \E t \in Callers : \E o \in NvccOutcomes \cup NvrtcOutcomes :
          Preprocess(t, o)
    \/ \E t \in Callers : IsDir(t)
    \/ \E t \in Callers : \E o \in {"ok", "denied"} : MakeDirs(t, o)
    \/ \E t \in Callers : Recheck(t)
    \/ \E t \in Callers : Lookup(t)
    \/ \E t \in Callers :
          \E o \in NvccOutcomes \cup NvrtcOutcomes \cup {"link_error"} :
             Compile(t, o)
    \/ \E t \in Callers : WriteHash(t)
    \/ \E t \in Callers : WriteCubin(t)
    \/ \E t \in Callers : Move(t)
    \/ \E t \in Callers : \E o \in SaveOutcomes : SaveSource(t, o)

Spec == Init /\ [][Next]_vars

\* racing callers with the threads switched inside _get_arch as well, on a
\* host that does not save the source
InitLazy == Init /\ ~host.save

NextLazy ==
    \/ \E t \in Callers : \E a \in RaceArgs : Enter(t, a)
    \/ \E t \in Callers : ResolveEnv(t)
    \/ \E t \in Callers : \E a \in RaceArgs :
          nvrtc_max_compute_capability # None /\ Call(t, a)
    \/ \E t \in Callers : \E o \in NvccOutcomes \cup NvrtcOutcomes :
          Preprocess(t, o)
    \/ \E t \in Callers : IsDir(t)
    \/ \E t \in Callers : \E o \in {"ok", "denied"} : MakeDirs(t, o)
    \/ \E t \in Callers : Recheck(t)
    \/ \E t \in Callers : Lookup(t)
    \/ \E t \in Callers :
          \E o \in NvccOutcomes \cup NvrtcOutcomes \cup {"link_error"} :
             Compile(t, o)
    \/ \E t \in Callers : WriteHash(t)
    \/ \E t \in Callers : WriteCubin(t)
    \/ \E t \in Callers : Move(t)

SpecLazy == InitLazy /\ [][NextLazy]_vars

\* _get_arch() called directly, on hosts of many device capabilities and
\* toolchain versions
MaxArchCalls == 2

\* device.Device().compute_capability: major and minor written together
Capabilities ==
    {<<"2", "0">>, <<"3", "0">>, <<"3", "5">>, <<"5", "0">>, <<"5", "2">>,
     <<"6", "0">>, <<"6", "1">>, <<"7", "0">>, <<"7", "5">>, <<"8", "6">>,
     <<"9", "0">>, <<"1", "0", "0">>, <<"1", "2", "0">>}

\* nvrtc.getVersion()
Versions ==
    {<<7, 0>>, <<7, 5>>, <<8, 0>>, <<9, 0>>, <<9, 1>>, <<10, 2>>, <<12, 0>>}

ArchHosts ==
    {[version |-> v, cc |-> c, debug |-> FALSE, save |-> FALSE,
      dump |-> FALSE] : v \in Versions, c \in Capabilities}

\* lines 52-66: one call of _get_arch(); archio lists what each call was
\* given and what it returned
GetArch ==
    LET version == get_nvrtc_version(nvrtc_version)
        found == nvrtc_max_compute_capability
    IN  /\ Len(archio) < MaxArchCalls
        /\ nvrtc_version' = IF found = None THEN version ELSE nvrtc_version
        /\ nvrtc_max_compute_capability' =
              max_compute_capability(found, version)
        /\ archio' = Append(archio,
              [cc |-> host.cc, version |-> host.version,
               ceiling |-> max_compute_capability(found, version),
               result |-> get_arch(found, version)])
        /\ UNCHANGED <<keyvars, prog, dumpio, host,
                       empty_file_preprocess_cache, dir_exists, files,
                       tmpdirs, tmp_made, pc, fr, calls, restarts, persisted,
                       corrupted, direct>>

InitArch == host \in ArchHosts /\ Imported

NextArch == GetArch

SpecArch == InitArch /\ [][NextArch]_vars

\* CompileException.dump called on its own
NextDump == \E n \in 1..MaxLines : \E p \in Patterns : Dump(PatternSource(n, p))

SpecDump == Init /\ [][NextDump]_vars

\* one caller at a time, and the process restarted
NextSeq ==
    \/ \E a \in CallArgs : SeqCall(a)
    \/ \E o \in NvccOutcomes \cup NvrtcOutcomes : \E t \in Callers : Preprocess(t, o)
    \/ \E t \in Callers : IsDir(t)
    \/ \E o \in {"ok", "denied"} : \E t \in Callers : MakeDirs(t, o)
    \/ \E t \in Callers : Recheck(t)
    \/ \E t \in Callers : Lookup(t)
    \/ \E o \in NvccOutcomes \cup NvrtcOutcomes \cup {"link_error"} :
          \E t \in Callers : Compile(t, o)
    \/ \E t \in Callers : WriteHash(t)
    \/ \E t \in Callers : WriteCubin(t)
    \/ \E t \in Callers : Move(t)
    \/ \E o \in SaveOutcomes : \E t \in Callers : SaveSource(t, o)
    \/ Restart

SpecSeq == Init /\ [][NextSeq]_vars

\* one caller at a time, with entries damaged between calls
InitDamage == Init /\ ~host.save

NextDamage ==
    \/ \E a \in RaceArgs : SeqCall(a)
    \/ \E o \in NvccOutcomes \cup NvrtcOutcomes : \E t \in Callers : Preprocess(t, o)
    \/ \E t \in Callers : IsDir(t)
    \/ \E o \in {"ok", "denied"} : \E t \in Callers : MakeDirs(t, o)
    \/ \E t \in Callers : Recheck(t)
    \/ \E t \in Callers : Lookup(t)
    \/ \E o \in NvccOutcomes \cup NvrtcOutcomes \cup {"link_error"} :
          \E t \in Callers : Compile(t, o)
    \/ \E t \in Callers : WriteHash(t)
    \/ \E t \in Callers : WriteCubin(t)
    \/ \E t \in Callers : Move(t)
    \/ Corrupt

SpecDamage == InitDamage /\ [][NextDamage]_vars

\* racing callers whose arguments differ and give one key string (line 225
\* joins source and extra_source by a blank), on a host that saves the source
CollideArgs ==
    {[source |-> <<"a", " ", "b">>, options |-> <<>>, arch |-> None,
      extra_source |-> <<"c">>, backend |-> NVRTC],
     [source |-> <<"a">>, options |-> <<>>, arch |-> None,
      extra_source |-> <<"b", " ", "c">>, backend |-> NVRTC]}

InitCollide == Init /\ host.save

NextCollide ==
    \/ \E t \in Callers : \E a \in CollideArgs : Call(t, a)
    \/ \E t \in Callers : \E o \in NvrtcOutcomes : Preprocess(t, o)
    \/ \E t \in Callers : IsDir(t)
    \/ \E t \in Callers : \E o \in {"ok", "denied"} : MakeDirs(t, o)
    \/ \E t \in Callers : Recheck(t)
    \/ \E t \in Callers : Lookup(t)
    \/ \E t \in Callers : \E o \in NvrtcOutcomes \cup {"link_error"} :
          Compile(t, o)
    \/ \E t \in Callers : WriteHash(t)
    \/ \E t \in Callers : WriteCubin(t)
    \/ \E t \in Callers : Move(t)
    \/ \E t \in Callers : \E o \in SaveOutcomes : SaveSource(t, o)

SpecCollide == InitCollide /\ [][NextCollide]_vars

\* the two backends called directly
NextBackend ==
    \/ \E s \in DirectSources : \E a \in DirectArchs : \E c \in CodeTypes :
          \E o \in NvccOutcomes : DirectNvcc(s, a, c, o)
    \/ \E s \in DirectSources : \E a \in DirectArchs :
          \E o \in NvrtcOutcomes : DirectNvrtc(s, a, o)

SpecBackend == Init /\ [][NextBackend]_vars

\* the key construction applied to two argument records
NextKey ==
    \/ ChooseInputs
    \/ BuildKey

SpecKey == Init /\ [][NextKey]_vars

\* one _NVRTCProgram constructed, compiled with, and released
NextProgram ==
    \/ \E src \in ProgSources : \E name \in ProgNames :
          \E o \in {"ok", "create_error"} : ProgInit(src, name, o)
    \/ \E o \in NvrtcOutcomes : ProgCompile(o)
    \/ \E final \in BOOLEAN : ProgDel(final)

SpecProgram == Init /\ [][NextProgram]_vars

(***************************************************************************)
(* Properties.                                                             *)
(***************************************************************************)
\* what was read at the entry path is not a valid entry: shorter than the
\* digest, or its first 32 bytes are not the digest of the rest
Damaged(data) ==
    \/ Len(data) < DIGEST_WIDTH
    \/ SubSeq(data, 1, DIGEST_WIDTH) #
          md5_hexdigest(SubSeq(data, DIGEST_WIDTH + 1, Len(data)))

AfterCompile == {"write_hash", "write_cubin", "move", "save_source"}

Runs(f) == f.nvcc_runs + f.nvrtc_runs

\* C1: a call that read a truncated or digest-mismatching file at its entry
\* path treats it as a miss: it is not a hit, the bytes read are not loaded,
\* no error is raised for it, and the call is about to compile or has
\* compiled through the backend.
C1_DamagedEntryIsMiss ==
    \A t \in Callers :
        LET f == fr[t]
        IN  (f.data # None /\ Damaged(f.data)) =>
               /\ f.found
               /\ ~f.hit
               /\ f.loaded = None
               /\ f.err = ""
               /\ pc[t] \in {"compile"} \cup AfterCompile
               /\ pc[t] \in AfterCompile =>
                     /\ f.cubin # None
                     /\ Runs(f) = (IF f.base_cached THEN 1 ELSE 2)

\* a call has read an entry of full length whose digest does not match, and
\* has compiled instead
C1_Witness ==
    \E t \in Callers :
        /\ pc[t] = "move"
        /\ fr[t].data # None
        /\ Len(fr[t].data) >= DIGEST_WIDTH
        /\ Damaged(fr[t].data)
        /\ corrupted > 0

C3_HitInvokesNoBackend ==
    \A t \in Callers : fr[t].hit => Runs(fr[t]) = 0

\* C3: a call whose lookup finds a valid entry never compiles the source; the
\* only backend run of such a call is the compilation of the empty source for
\* the baseline, made before the lookup exactly when the process had no
\* baseline for the environment.
C3_HitCompilesNoSource ==
    \A t \in Callers :
        fr[t].hit =>
           /\ pc[t] = "returned"
           /\ fr[t].cubin = None
           /\ Runs(fr[t]) = (IF fr[t].base_cached THEN 0 ELSE 1)
           /\ Len(fr[t].outcomes) = Runs(fr[t])

\* the first call of a restarted process hits an entry the process before it
\* wrote, after one backend run for the baseline
C3_Witness ==
    \E t \in Callers :
        /\ fr[t].hit
        /\ ~fr[t].base_cached
        /\ Runs(fr[t]) = 1
        /\ fr[t].epoch > 0

\* the call after the first, with the first's arguments, in the first's
\* process
SecondIdentical(t) ==
    /\ t > 1
    /\ pc[t] = "returned"
    /\ pc[t - 1] = "returned"
    /\ fr[t - 1].fresh
    /\ fr[t - 1].backend = NVCC
    /\ fr[t].args = fr[t - 1].args
    /\ fr[t].epoch = fr[t - 1].epoch

\* the first call has returned and nothing else has been called
FirstReturned ==
    /\ calls = 1
    /\ pc[1] = "returned"
    /\ fr[1].fresh
    /\ fr[1].backend = NVCC

\* C4 as stated: from a fresh process and an empty cache directory, the first
\* nvcc call makes exactly one external process invocation and leaves exactly
\* one file in the cache directory; a second identical call makes none and
\* loads the same payload.
C4_OneInvocationOneFile ==
    /\ FirstReturned =>
          /\ fr[1].nvcc_runs = 1
          /\ Cardinality(DOMAIN files) = 1
    /\ \A t \in Callers :
          SecondIdentical(t) =>
             /\ fr[t].nvcc_runs = 0
             /\ fr[t].loaded = fr[t - 1].loaded

\* C4: from a fresh process and an empty cache directory, the first nvcc call
\* that returns made exactly two external process invocations (the empty
\* source for the baseline, then the source) and leaves exactly one file in
\* the cache directory, two when the source is saved beside the entry; a
\* second identical call in the same process makes none and loads the same
\* payload.
C4_TwoInvocationsThenNone ==
    /\ FirstReturned =>
          /\ fr[1].nvcc_runs = 2
          /\ fr[1].nvrtc_runs = 0
          /\ Cardinality(DOMAIN files) = (IF host.save THEN 2 ELSE 1)
          /\ fr[1].name \in DOMAIN files
    /\ \A t \in Callers :
          SecondIdentical(t) =>
             /\ fr[t].nvcc_runs = 0
             /\ fr[t].nvrtc_runs = 0
             /\ fr[t].hit
             /\ fr[t].loaded = fr[t - 1].loaded

\* the second identical nvcc call has returned from a hit
C4_Witness ==
    \E t \in Callers :
        /\ SecondIdentical(t)
        /\ fr[t].hit
        /\ fr[t - 1].nvcc_runs = 2
        /\ fr[t].loaded # None

\* the inputs C5 names are the same in both argument records
SameAddress(i, j) ==
    /\ i.arch = j.arch
    /\ ForcedOptions(i.options, FALSE) = ForcedOptions(j.options, FALSE)
    /\ i.backend = j.backend
    /\ i.source = j.source

\* C5: two calls that compute the same key (the same key string, and so the
\* same entry name) ask for the same payload: they have the same architecture,
\* forced options, backend and source text.
C5_ContentAddressing ==
    (kout # <<>> /\ (kout[1] = kout[2] \/ kout[3] = kout[4])) =>
       SameAddress(kin[1], kin[2])

KeyFields == {"arch", "options", "version", "backend", "source",
              "extra_source"}

\* the two argument records differ in exactly the component k
DiffersOnlyIn(i, j, k) ==
    /\ i[k] # j[k]
    /\ \A l \in KeyFields \ {k} : i[l] = j[l]

\* C6: changing exactly one of options (order included), architecture,
\* toolchain version, backend, source or extra_source (absent against any
\* string included) changes the key string, and the entry name with it.
C6_KeySensitivity ==
    kout # <<>> =>
       \A k \in KeyFields :
          DiffersOnlyIn(kin[1], kin[2], k) =>
             /\ kout[1] # kout[2]
             /\ kout[3] # kout[4]

\* C7: what a writer stored under an entry name is what a reader gets: the
\* file at the entry path is the payload's digest followed by the payload, the
\* bytes after the digest are the payload the writer compiled, and a call that
\* found the entry hit it and loaded exactly that payload.
C7_RoundTrip ==
    /\ \A n \in DOMAIN persisted :
          n \in DOMAIN files =>
             /\ files[n] = md5_hexdigest(persisted[n]) \o persisted[n]
             /\ EntryCubin(files[n]) = persisted[n]
    /\ \A t \in Callers :
          (fr[t].found /\ fr[t].name \in DOMAIN persisted) =>
             /\ fr[t].hit
             /\ fr[t].loaded = persisted[fr[t].name]

\* one caller compiled and stored the entry, another found it and loaded the
\* stored payload
C7_Witness ==
    \E t \in Callers : \E u \in Callers :
        /\ t # u
        /\ fr[u].name = fr[t].name
        /\ pc[u] = "returned"
        /\ fr[u].cubin # None
        /\ pc[t] = "returned"
        /\ fr[t].hit
        /\ fr[t].loaded = fr[u].cubin

\* the error a failed run of the compiler or linker is raised as
ErrorOf(o) ==
    CASE o = "nvrtc_error" -> "CompileException"
      [] o = "exit_nonzero" -> "CompileException"
      [] o = "not_found" -> "OSError"
      [] o = "link_error" -> "LinkError"
      [] OTHER -> ""

\* C8: when a run of the backend compiler, the linker or the external process
\* fails during a call, the call ends by raising that error: it holds the
\* error, it has not returned or loaded a module, and the failed run is its
\* last (no retry, no continuation).
C8_ErrorsSurface ==
    \A t \in Callers :
        \A i \in 1..Len(fr[t].outcomes) :
            fr[t].outcomes[i] # "ok" =>
               /\ i = Len(fr[t].outcomes)
               /\ Runs(fr[t]) = i
               /\ pc[t] = "raised"
               /\ fr[t].err = ErrorOf(fr[t].outcomes[i])
               /\ fr[t].loaded = None
               /\ fr[t].cubin = None

\* a call ended by raising the linker's error after its baseline was computed
C8_Witness ==
    \E t \in Callers :
        /\ pc[t] = "raised"
        /\ fr[t].outcomes = <<"ok", "link_error">>
        /\ fr[t].err = "LinkError"

\* C9: compile_using_nvcc called with an output kind other than cubin and ptx
\* raises the value error before any temporary directory is made and before
\* any external process is started.
C9_OutputKindValidatedFirst ==
    (direct.fn = "nvcc" /\ direct.code_type \notin {CUBIN, PTX}) =>
       /\ direct.r.err = "ValueError"
       /\ direct.r.nvcc_runs = 0
       /\ direct.r.scopes = <<>>
       /\ tmp_made = direct.made_before
       /\ tmpdirs = direct.td_before

\* the nvcc backend was called with the kind fatbin after an earlier call had
\* made a temporary directory
C9_Witness ==
    /\ direct.fn = "nvcc"
    /\ direct.code_type = <<"f", "a", "t", "b", "i", "n">>
    /\ direct.r.err = "ValueError"
    /\ direct.made_before > 0

\* C10: a temporary directory scope left normally has its directory and every
\* file in it removed; a scope left by an exception leaves the directory on
\* disk, with the files written to it.
C10_TempDirAsymmetry ==
    \A t \in Callers :
        \A i \in 1..Len(fr[t].scopes) :
            LET s == fr[t].scopes[i]
            IN  IF s.exc
                THEN /\ s.dir \in DOMAIN tmpdirs
                     /\ tmpdirs[s.dir] # {}
                ELSE s.dir \notin DOMAIN tmpdirs

\* an nvcc call left its first scope normally and its second by an exception,
\* and an nvrtc call left its scope by an exception
C10_Witness ==
    \E t \in Callers : \E u \in Callers :
        /\ fr[t].backend = NVCC
        /\ Len(fr[t].scopes) = 2
        /\ ~fr[t].scopes[1].exc
        /\ fr[t].scopes[1].dir \notin DOMAIN tmpdirs
        /\ fr[t].scopes[2].exc
        /\ fr[t].scopes[2].dir \in DOMAIN tmpdirs
        /\ fr[u].backend = NVRTC
        /\ Len(fr[u].scopes) = 1
        /\ fr[u].scopes[1].exc
        /\ fr[u].scopes[1].dir \in DOMAIN tmpdirs

\* C11: the handle of an _NVRTCProgram is destroyed exactly once if it was
\* created and never if it was not, however often the release step runs.
C11_ReleasedExactlyOnce ==
    /\ prog.handle = "none" => prog.destroys = 0
    /\ prog.handle # "none" => prog.destroys <= 1
    /\ (prog.reach = "gone" /\ prog.handle # "none") => prog.destroys = 1

RECURSIVE StrNum(_)
\* the number a text of decimal digits writes
StrNum(s) ==
    IF Len(s) = 0 THEN 0
    ELSE 10 * StrNum(SubSeq(s, 1, Len(s) - 1)) + (Ord[s[Len(s)]] - 1)

\* the highest architecture the toolchain of `version` accepts, as a number
Ceiling(version) == IF version[1] < 9 THEN 50 ELSE 70

\* C12: the architecture that enters the compile environment of a call of
\* compile_with_cache never exceeds the ceiling of the toolchain version,
\* also when the caller supplied it.
C12_ArchWithinCeiling ==
    \A t \in Callers :
        pc[t] \notin {"idle", "resolve"} =>
            StrNum(fr[t].arch) <= Ceiling(host.version)

\* C13 as stated: when the write of the source beside the entry fails, the
\* entry stays valid at its final path and the call still loads the payload
\* and returns the module.
C13_SaveFailureNotFatal ==
    \A t \in Callers :
        fr[t].saved \in {"io_error", "write_error"} =>
           /\ fr[t].name \in DOMAIN files
           /\ EntryValid(files[fr[t].name])
           /\ pc[t] = "returned"
           /\ fr[t].loaded = fr[t].cubin

\* C13: when the write of the source beside the entry fails, the entry is
\* already in place and stays valid at its final path with the compiled
\* payload, but the call ends by raising the write's error and loads nothing.
C13_SaveFailureKeepsEntry ==
    \A t \in Callers :
        fr[t].saved \in {"io_error", "write_error"} =>
           /\ fr[t].name \in DOMAIN files
           /\ EntryValid(files[fr[t].name])
           /\ EntryCubin(files[fr[t].name]) = fr[t].cubin
           /\ pc[t] = "raised"
           /\ fr[t].err = "IOError"
           /\ fr[t].loaded = None

\* a call raised the error of the source write, and the next call hit the
\* entry it had left
C13_Witness ==
    \E t \in Callers : \E u \in Callers :
        /\ fr[t].saved = "write_error"
        /\ pc[t] = "raised"
        /\ fr[u].name = fr[t].name
        /\ fr[u].hit
        /\ fr[u].loaded = fr[t].cubin

(***************************************************************************)
(* C14: the lazily computed process-wide values                            *)
(***************************************************************************)
\* caller t has compiled the baseline of its environment and stored it
BaselineStored(t) ==
    /\ pc[t] \notin {"idle", "resolve", "preprocess"}
    /\ ~fr[t].base_cached
    /\ fr[t].failed # "preprocess"

\* caller t has compiled the baseline of its environment, stored or not
BaselineRun(t) ==
    /\ pc[t] \notin {"idle", "resolve", "preprocess"}
    /\ ~fr[t].base_cached

\* caller t has determined the architecture ceiling
CeilingDetermined(t) ==
    /\ pc[t] \notin {"idle", "resolve"}
    /\ fr[t].sets_ceiling

\* C14 as stated: in one process, calls interleaved from several threads
\* included, the baseline of one environment is compiled by at most one call
\* and the architecture ceiling is determined by at most one call.
C14_LazyCachesComputedOnce ==
    \A t, u \in Callers :
        (t # u /\ fr[t].epoch = fr[u].epoch) =>
            /\ ~(BaselineRun(t) /\ BaselineRun(u) /\ fr[t].env = fr[u].env)
            /\ ~(CeilingDetermined(t) /\ CeilingDetermined(u))

\* C14 amended: in one process, two calls that both stored the baseline of
\* one environment, or that both determined the architecture ceiling, ran
\* together; and a call that found the baseline stored holds the stored
\* value and ran no compiler for it.
C14_ComputedOnceUnlessRacing ==
    /\ \A t, u \in Callers :
          (t # u /\ fr[t].epoch = fr[u].epoch) =>
              /\ (BaselineStored(t) /\ BaselineStored(u)
                   /\ fr[t].env = fr[u].env) => u \in fr[t].overlap
              /\ (CeilingDetermined(t) /\ CeilingDetermined(u))
                     => u \in fr[t].overlap
    /\ \A t \in Callers :
          (pc[t] \notin {"idle", "resolve"} /\ fr[t].base_cached
           /\ fr[t].epoch = restarts) =>
              /\ fr[t].env \in DOMAIN empty_file_preprocess_cache
              /\ fr[t].base = empty_file_preprocess_cache[fr[t].env]
              /\ (pc[t] \in {"isdir", "makedirs", "recheck", "lookup"}
                     => Runs(fr[t]) = 0)

\* a call has determined the ceiling and stored the baseline, and a call
\* made after it has ended found both and returned
C14_Witness ==
    \E t, u \in Callers :
        /\ t # u
        /\ u \notin fr[t].overlap
        /\ BaselineStored(t)
        /\ CeilingDetermined(t)
        /\ pc[u] = "returned"
        /\ fr[u].env = fr[t].env
        /\ fr[u].base_cached
        /\ ~fr[u].sets_ceiling

(***************************************************************************)
(* C15: architecture resolution                                            *)
(***************************************************************************)
\* the smaller of two numbers
NumMin(a, b) == IF a <= b THEN a ELSE b

\* C15: every call of _get_arch returns the numerically smaller of the device
\* capability and the ceiling of the compiler version (50 below major
\* version 9, 70 otherwise); the result exceeds neither of the two.
C15_ArchIsNumericMinimum ==
    \A i \in DOMAIN archio :
        LET r == archio[i]
        IN  /\ StrNum(r.ceiling) = Ceiling(r.version)
            /\ StrNum(r.result) = NumMin(StrNum(r.cc), Ceiling(r.version))
            /\ StrNum(r.result) <= StrNum(r.cc)
            /\ StrNum(r.result) <= Ceiling(r.version)

(***************************************************************************)
(* C16: creation of the cache directory                                    *)
(***************************************************************************)
\* C16: a call leaves the creation of the cache directory (lines 230-235)
\* by raising only from the re-check after a failed os.makedirs, and only
\* when the directory does not exist then; a caller whose os.makedirs
\* failed while the directory exists, another caller having created it
\* first, goes on to the lookup.
C16_DirectoryRaceNotFatal ==
    [][\A t \in Callers :
          /\ (pc[t] \in {"isdir", "makedirs", "recheck"}
               /\ pc'[t] = "raised") =>
                  /\ pc[t] = "recheck"
                  /\ ~dir_exists'
                  /\ fr'[t].failed = "makedirs"
          /\ (pc[t] = "recheck" /\ dir_exists /\ pc'[t] # pc[t]) =>
                  /\ pc'[t] = "lookup"
                  /\ fr'[t].err = ""
          /\ (fr'[t].failed = "makedirs" /\ fr[t].failed # "makedirs") =>
                  pc[t] = "recheck"]_vars

\* two callers found the directory missing; one created it and went on, and
\* the os.makedirs of the other has failed with the directory there
C16_Witness ==
    \E t, u \in Callers :
        /\ t # u
        /\ pc[t] = "recheck"
        /\ dir_exists
        /\ pc[u] \notin {"idle", "resolve", "preprocess", "isdir",
                          "makedirs", "recheck", "raised"}
        /\ u \in fr[t].overlap

(***************************************************************************)
(* C17: the lifecycle of an _NVRTCProgram                                  *)
(***************************************************************************)
\* C17: once the handle of an _NVRTCProgram has been released nothing uses
\* it again: every compileProgram, getPTX and getProgramLog is given a live
\* handle, and the release is the last use of the handle there is.
C17_ReleasedIsTerminal ==
    \A i \in DOMAIN prog.uses :
        /\ prog.uses[i].op \in {"compileProgram", "getPTX", "getProgramLog"}
              => prog.uses[i].handle = "live"
        /\ prog.uses[i].op = "destroyProgram" => i = Len(prog.uses)

(***************************************************************************)
(* C18: the line numbers of a dumped source                                *)
(***************************************************************************)
\* the number of lines of a text: one more than its line feeds
LineCount(source) ==
    Cardinality({i \in 1..Len(source) : source[i] = NL}) + 1

\* the writes of a dump that carry the source: those after the five of the
\* head and before the closing one
SourceWrites(out) == SubSeq(out, Len(DUMP_HEAD) + 1, Len(out) - 1)

\* C18: a dump of a source of n >= 1 lines writes n source lines, the k-th
\* being the number k in exactly as many digits as n has (zeros in front),
\* a space, the k-th line of the source without its trailing whitespace and
\* one line feed, at its end; with 11 lines the numbers have 2 digits, with
\* 100 lines 3.
C18_LineNumberWidth ==
    dumpio # <<>> =>
        LET n == LineCount(dumpio.source)
            W == Len(IntStr(n))
            w == SourceWrites(dumpio.out)
            src == Split(dumpio.source)
        IN  /\ Len(w) = n
            /\ n = 11 => W = 2
            /\ n = 100 => W = 3
            /\ \A k \in 1..n :
                  /\ Len(w[k]) >= W + 2
                  /\ StrNum(SubSeq(w[k], 1, W)) = k
                  /\ w[k][W + 1] = " "
                  /\ w[k][Len(w[k])] = NL
                  /\ \A i \in 1..(Len(w[k]) - 1) : w[k][i] # NL
                  /\ SubSeq(w[k], W + 2, Len(w[k]) - 1) = RStrip(src[k])

\* a source of 100 lines, some ending in whitespace, has been dumped with
\* numbers 001 to 100
C18_Witness ==
    /\ dumpio # <<>>
    /\ LineCount(dumpio.source) = 100
    /\ \E i \in 1..(Len(dumpio.source) - 1) :
          dumpio.source[i] = " " /\ dumpio.source[i + 1] = NL
    /\ SubSeq(dumpio.out[Len(DUMP_HEAD) + 1], 1, 4) = <<"0", "0", "1", " ">>
    /\ SubSeq(dumpio.out[Len(DUMP_HEAD) + 100], 1, 4) = <<"1", "0", "0", " ">>

(***************************************************************************)
(* C19: what a call that returns leaves behind                             *)
(***************************************************************************)
\* C19: at the step by which a call of compile_with_cache returns a module,
\* the file at the final path of its key is a valid entry and the payload
\* of that entry is the binary the module was loaded with, whether the call
\* hit, compiled for want of an entry or compiled because the entry it read
\* was damaged, and whatever the other callers did meanwhile.
C19_ReturnLeavesValidEntry ==
    [][\A t \in Callers :
          (pc[t] # "returned" /\ pc'[t] = "returned") =>
              LET f == fr'[t]
              IN  /\ f.name \in DOMAIN files'
                  /\ EntryValid(files'[f.name])
                  /\ EntryCubin(files'[f.name]) = f.loaded
                  /\ f.loaded # None]_vars

(***************************************************************************)
(* C20: what a call that fails leaves behind                               *)
(***************************************************************************)
\* the stages at which a backend, a tool or the linker fails
BackendStages == {"preprocess", "compile", "link"}

\* C20: with one call at a time, a call of compile_with_cache that ends by
\* raising the error of a backend, a tool or the linker has no binary and
\* no temporary file in the cache directory; no step of a call that has no
\* binary after it changes a file of the cache directory, so the final path
\* of the key holds what it held before the call; and neither the entering
\* of a call nor a failure in computing the baseline changes the baseline
\* map of the process.
C20_FailureLeavesStateUnchanged ==
    /\ [](\A t \in Callers :
            (pc[t] = "raised" /\ fr[t].failed \in BackendStages) =>
                /\ fr[t].cubin = None
                /\ TempName(t, fr[t].name) \notin DOMAIN files)
    /\ [][\A t \in Callers :
            pc'[t] # pc[t] =>
                /\ fr'[t].cubin = None => files' = files
                /\ (pc[t] = "idle"
                    \/ (pc'[t] = "raised" /\ fr'[t].failed = "preprocess"))
                      => empty_file_preprocess_cache' =
                            empty_file_preprocess_cache]_vars

\* the latest call failed in the compiler or the linker with the entry of an
\* earlier call in the directory, which is as that call left it
C20_Witness ==
    \E t \in Callers :
        /\ pc[t] = "raised"
        /\ calls = t
        /\ fr[t].epoch = restarts
        /\ fr[t].failed \in {"compile", "link"}
        /\ \E n \in DOMAIN files : IsEntryName(n) /\ EntryValid(files[n])
        /\ fr[t].name \notin DOMAIN files

=============================================================================
